---- MODULE Spec2Model ----
(***************************************************************************)
(* BrainStormX: the workshop phase / timer engine.                         *)
(*                                                                         *)
(* One workshop row, its BrainstormTask / BrainstormIdea / IdeaCluster /   *)
(* IdeaVote rows, the participants' dots, and the request handlers that    *)
(* read and write them (app/workshop/routes.py, app/sockets.py,            *)
(* app/service/routes/*.py, app/models.py).  Datetimes are whole seconds   *)
(* of a clock `now`; a NULL column is the value None.  Handlers that talk  *)
(* to the database more than once are split at their database round trips  *)
(* so that two requests can interleave there.                              *)
(***************************************************************************)
EXTENDS Integers, FiniteSets, Sequences, TLC

(* ------------------------------ bounds -------------------------------- *)
MaxClock == 2            \* seconds the clock may advance
MaxTasks == 2            \* BrainstormTask rows
MaxIdeas == 1            \* BrainstormIdea rows
MaxDuration == 2         \* largest task_duration the generator returns
NumClusters == 6         \* clusters of the voting task (SpecVoteSeq)
RacedClusters == 2       \* clusters of the voting task (SpecVote)
MaxDots == 6             \* cap on dots_remaining (SpecVote)
MaxIndex == 5            \* cap on Workshop.current_task_index (SpecAdvance)

(* ------------------------- program constants -------------------------- *)
None == -1               \* a NULL column (ids, datetimes, indexes are >= 0)
TASK_SEQUENCE ==
  <<"brainstorming", "clustering_voting", "results_feasibility", "discussion", "summary">>
default_dots == 5
DefaultTaskDuration == 60
DefaultIntroDuration == 60

Organizer == "organizer"               \* Workshop.created_by_id
Users == {"organizer", "member"}        \* users with a WorkshopParticipant row
Sessions == {"s1", "s2"}                \* two requests / connections in flight
Durations == {0, MaxDuration}    \* a task without a duration, or the longest
allowed_statuses == {"scheduled", "inprogress", "paused", "completed", "cancelled"}

(* what the content generator (the LLM) hands back *)
GenOutcomes == {"ok", "not_json", "not_object", "missing_keys"}

VARIABLES
  status,                       \* Workshop.status
  current_task_id,              \* Workshop.current_task_id
  current_task_index,           \* Workshop.current_task_index
  timer_start_time,             \* Workshop.timer_start_time
  timer_paused_at,              \* Workshop.timer_paused_at
  timer_elapsed_before_pause,   \* Workshop.timer_elapsed_before_pause
  has_action_plan,              \* Workshop.task_sequence parses to a non-empty list
  tasks,                        \* brainstorm_tasks rows
  ideas,                        \* brainstorm_ideas rows
  clusters,                     \* idea_clusters rows
  votes,                        \* idea_votes rows
  dots,                         \* WorkshopParticipant.dots_remaining, per user
  sid_registry,                 \* _sid_registry: sid -> {room, workshop_id, user_id}, in insertion order
  room_presence,                \* _room_presence: room -> set of user ids
  joined,                       \* per connection: the room its client has joined and not left
  emitted,                      \* what the last socket handler emitted
  now,                          \* datetime.utcnow()
  ran,                          \* history: seconds the current task has been current
                                \*          while status = inprogress
  resp,                         \* reply of the handler that ran last
  bs,                           \* get_brainstorming_task_payload calls in flight
  vt                            \* submit_vote handlers in flight

wsVars    == <<status, current_task_id, current_task_index, has_action_plan>>
timerVars == <<timer_start_time, timer_paused_at, timer_elapsed_before_pause>>
rowVars   == <<tasks, ideas, clusters>>
voteVars  == <<votes, dots>>
sockVars  == <<sid_registry, room_presence, joined, emitted>>
vars == <<status, current_task_id, current_task_index, timer_start_time,
          timer_paused_at, timer_elapsed_before_pause, has_action_plan,
          tasks, ideas, clusters, votes, dots, now, ran, resp, bs, vt,
          sid_registry, room_presence, joined, emitted>>

(* ------------------------------ helpers ------------------------------- *)
Max0(x) == IF x > 0 THEN x ELSE 0

NextId(rows) == Cardinality(rows) + 1        \* autoincrement primary key

Reply(op, ok, code) == [op |-> op, ok |-> ok, code |-> code, gen |-> "none"]
GenReply(op, ok, code, gen) == [op |-> op, ok |-> ok, code |-> code, gen |-> gen]

BsIdle == [pc |-> "idle", task_id |-> None, new_index |-> None]
NoVote == <<None, "", 0>>              \* existing_vote is None
VtIdle == [pc |-> "idle", user |-> Organizer, cluster |-> None, dots |-> 0, existing |-> NoVote]

HasCurrentTask == current_task_id # None /\ \E t \in tasks : t.id = current_task_id
CurrentTask == CHOOSE t \in tasks : t.id = current_task_id

(* a remaining time that counts up with the elapsed time *)
RemainingTaskTime_CountsUp(has_task, duration, st, start, paused_at, elapsed, clock) ==
  IF ~has_task \/ duration = 0 THEN 0
  ELSE IF st = "inprogress" /\ start # None
         THEN elapsed + (clock - start)
  ELSE 0

(* Workshop.get_remaining_task_time, as a function of the fields it reads *)
RemainingTaskTime(has_task, duration, st, start, paused_at, elapsed, clock) ==
  IF ~has_task \/ duration = 0 THEN 0
  ELSE IF st = "paused" /\ paused_at # None
         THEN Max0(duration - elapsed)
  ELSE IF st = "inprogress" /\ start # None
         THEN Max0(duration - (elapsed + (clock - start)))
  ELSE 0

get_remaining_task_time ==
  RemainingTaskTime(HasCurrentTask,
                    IF HasCurrentTask THEN CurrentTask.duration ELSE 0,
                    status, timer_start_time, timer_paused_at,
                    timer_elapsed_before_pause, now)

(* ------------------- presence tracking (sockets.py) -------------------- *)
WorkshopId == 1                       \* the workshop's primary key
Sids  == {"sidA", "sidB"}             \* request.sid of the connections
Rooms == {"workshop_lobby_1", "workshop_room_1"}
NoSid  == ""
NoRoom == ""

Info(room, workshop_id, user_id) ==
  [room |-> room, workshop_id |-> workshop_id, user_id |-> user_id]
NoInfo == Info(NoRoom, None, "")

(* _sid_registry is a dict: a sequence of (sid, info) items in insertion   *)
(* order, one item per sid.                                               *)
RegSids(reg) == {reg[i].sid : i \in DOMAIN reg}
RegInfo(reg, sid) == reg[CHOOSE i \in DOMAIN reg : reg[i].sid = sid].info
RegPop(reg, sid) == SelectSeq(reg, LAMBDA e : e.sid # sid)
RegPut(reg, sid, info) ==
  IF sid \in RegSids(reg)
    THEN [i \in DOMAIN reg |-> IF reg[i].sid = sid THEN [sid |-> sid, info |-> info]
                               ELSE reg[i]]
    ELSE Append(reg, [sid |-> sid, info |-> info])

(* _room_presence is a dict room -> set; every subscript in sockets.py is  *)
(* guarded by "room in _room_presence", so no entry appears by reading.    *)
Discard(presence, room, user_id) ==
  IF room \in DOMAIN presence
    THEN [presence EXCEPT ![room] = @ \ {user_id}]
    ELSE presence
AddUser(presence, room, user_id) ==
  [r \in DOMAIN presence \cup {room} |->
     IF r = room
       THEN (IF room \in DOMAIN presence THEN presence[room] ELSE {}) \cup {user_id}
       ELSE presence[r]]
DelRoom(presence, room) == [r \in DOMAIN presence \ {room} |-> presence[r]]

(* what a handler emits: the room the participant list is broadcast to,    *)
(* and for join_room the events sent with to=sid                           *)
NoEmit(op, sid) ==
  [op |-> op, sid |-> sid, list_to |-> NoRoom, sync_to |-> NoSid,
   event |-> "", task_type |-> "", timer_sync |-> FALSE,
   remaining_seconds |-> 0, is_paused |-> FALSE, content |-> ""]

SockInit ==
  /\ sid_registry = <<>>
  /\ room_presence = [r \in {} |-> {}]
  /\ joined = [s \in Sids |-> NoInfo]
  /\ emitted = NoEmit("none", NoSid)

(* ------------------------------- Init --------------------------------- *)
Init ==
  /\ status = "scheduled"
  /\ current_task_id = None
  /\ current_task_index = None
  /\ timer_start_time = None
  /\ timer_paused_at = None
  /\ timer_elapsed_before_pause = 0
  /\ has_action_plan \in BOOLEAN
  /\ tasks = {}
  /\ ideas = {}
  /\ clusters = {}
  /\ votes = {}
  /\ dots = [u \in Users |-> default_dots]
  /\ now = 0
  /\ ran = 0
  /\ resp = Reply("create_workshop", TRUE, 200)
  /\ bs = [s \in Sessions |-> BsIdle]
  /\ vt = [s \in Sessions |-> VtIdle]
  /\ SockInit

(* --------------------------- the clock -------------------------------- *)
Tick ==
  /\ now < MaxClock
  /\ now' = now + 1
  /\ ran' = IF status = "inprogress" /\ HasCurrentTask THEN ran + 1 ELSE ran
  /\ resp' = Reply("tick", TRUE, 0)
  /\ UNCHANGED <<wsVars, timerVars, sockVars, rowVars, voteVars, bs, vt>>

(* ----------------------- lifecycle routes ----------------------------- *)
(* a lifecycle route that leaves out its permission check *)
Lifecycle_NoPermissionCheck(op, u, from, to) ==
  /\ IF status # from
       THEN /\ resp' = Reply(op, FALSE, 400)
            /\ UNCHANGED status
       ELSE /\ status' = to
            /\ resp' = Reply(op, TRUE, 200)
  /\ UNCHANGED <<current_task_id, current_task_index, has_action_plan,
                 timerVars, sockVars, rowVars, voteVars, now, ran, bs, vt>>

(* a lifecycle route that leaves out its status check *)
Lifecycle_NoStatusCheck(op, u, from, to) ==
  /\ IF u # Organizer
       THEN /\ resp' = Reply(op, FALSE, 403)
            /\ UNCHANGED status
       ELSE /\ status' = to
            /\ resp' = Reply(op, TRUE, 200)
  /\ UNCHANGED <<current_task_id, current_task_index, has_action_plan,
                 timerVars, sockVars, rowVars, voteVars, now, ran, bs, vt>>

(* A lifecycle route: permission check, status check, then the one         *)
(* assignment to Workshop.status and the commit.                           *)
Lifecycle(op, u, from, to) ==
  /\ IF u # Organizer
       THEN /\ resp' = Reply(op, FALSE, 403)
            /\ UNCHANGED status
     ELSE IF status # from
       THEN /\ resp' = Reply(op, FALSE, 400)
            /\ UNCHANGED status
     ELSE /\ status' = to
          /\ resp' = Reply(op, TRUE, 200)
  /\ UNCHANGED <<current_task_id, current_task_index, has_action_plan,
                 timerVars, sockVars, rowVars, voteVars, now, ran, bs, vt>>

start_workshop(u)   == Lifecycle("start_workshop", u, "scheduled", "inprogress")
stop_workshop(u)    == Lifecycle("stop_workshop", u, "inprogress", "completed")
pause_workshop(u)   == Lifecycle("pause_workshop", u, "inprogress", "paused")
resume_workshop(u)  == Lifecycle("resume_workshop", u, "paused", "inprogress")
restart_workshop(u) == Lifecycle("restart_workshop", u, "cancelled", "inprogress")

(* edit_workshop (POST): the organizer's form carries any allowed status *)
edit_workshop(u, st) ==
  /\ IF u # Organizer
       THEN /\ resp' = Reply("edit_workshop", FALSE, 302)
            /\ UNCHANGED status
       ELSE /\ status' = st
            /\ resp' = Reply("edit_workshop", TRUE, 302)
  /\ UNCHANGED <<current_task_id, current_task_index, has_action_plan,
                 timerVars, sockVars, rowVars, voteVars, now, ran, bs, vt>>

StartWorkshop   == \E u \in Users : start_workshop(u)
StopWorkshop    == \E u \in Users : stop_workshop(u)
PauseWorkshop   == \E u \in Users : pause_workshop(u)
ResumeWorkshop  == \E u \in Users : resume_workshop(u)
RestartWorkshop == \E u \in Users : restart_workshop(u)
EditWorkshop    == \E u \in Users, st \in allowed_statuses : edit_workshop(u, st)

(* ------------------------ task-creating code -------------------------- *)
(* A BrainstormTask row.  from_index is not a column: it records the       *)
(* Workshop.current_task_index the creating request started from.         *)
NewTask(id, title, duration, st, started, from) ==
  [id |-> id, title |-> title, duration |-> duration, status |-> st,
   started_at |-> started, ended_at |-> None, from_index |-> from]

(* next_task: the payload the route ends up with for each generator result *)
NextTaskTitle(gen) ==
  IF gen \in {"not_json", "not_object"} THEN "Task Generation Error"
  ELSE IF gen = "missing_keys" THEN "Workshop Task"
  ELSE "generated"

NextTaskDuration(gen, d) == IF gen = "ok" THEN d ELSE DefaultTaskDuration

(* next_task (POST /next_task/<id>) *)
next_task(u, gen, d) ==
  /\ IF u # Organizer
       THEN /\ resp' = GenReply("next_task", FALSE, 403, gen)
            /\ UNCHANGED tasks
     ELSE IF has_action_plan
       \* workshop.current_action_plan_index is no attribute of Workshop
       THEN /\ resp' = GenReply("next_task", FALSE, 500, gen)
            /\ UNCHANGED tasks
     ELSE /\ tasks' = tasks \cup
                        {NewTask(NextId(tasks), NextTaskTitle(gen), NextTaskDuration(gen, d),
                                 "running", now, current_task_index)}
          /\ resp' = GenReply("next_task", TRUE, 200, gen)
  /\ UNCHANGED <<wsVars, timerVars, sockVars, ideas, clusters, voteVars, now, ran, bs, vt>>

(* begin_intro (POST /<id>/begin_intro).  The row is committed before the  *)
(* reply is built from the introduction's keys: text that parses but      *)
(* lacks them leaves the row and answers 500.                             *)
begin_intro(u, gen, d) ==
  /\ IF u # Organizer
       THEN /\ resp' = GenReply("begin_intro", FALSE, 403, gen)
            /\ UNCHANGED tasks
     ELSE IF gen = "not_json"
       THEN /\ resp' = GenReply("begin_intro", FALSE, 500, gen)
            /\ UNCHANGED tasks
     ELSE /\ tasks' = tasks \cup
                        {NewTask(NextId(tasks), "Introduction", d, "running", now,
                                 current_task_index)}
          /\ resp' = GenReply("begin_intro", gen = "ok", IF gen = "ok" THEN 200 ELSE 500, gen)
  /\ UNCHANGED <<wsVars, timerVars, sockVars, ideas, clusters, voteVars, now, ran, bs, vt>>

(* get_brainstorming_task_payload, up to its first commit (lines 12-75) *)
brainstorming_create(s, gen, d) ==
  /\ bs[s].pc = "idle"
  /\ IF gen # "ok"
       THEN /\ resp' = GenReply("get_brainstorming_task_payload", FALSE, 500, gen)
            /\ UNCHANGED <<tasks, bs>>
       ELSE /\ tasks' = tasks \cup
                          {NewTask(NextId(tasks), "generated", d, "pending", None,
                                   current_task_index)}
            /\ bs' = [bs EXCEPT ![s] = [pc |-> "task_committed",
                                          task_id |-> NextId(tasks), new_index |-> None]]
            /\ UNCHANGED resp
  /\ UNCHANGED <<wsVars, timerVars, sockVars, ideas, clusters, voteVars, now, ran, vt>>

(* Python's (x or 0) for a nullable integer *)
OrZero(x) == IF x = None THEN 0 ELSE x

IndexAfterBrainstorming(idx) == OrZero(idx) + 1

(* lines 78-79: the workshop row is expired by the commit and read again *)
brainstorming_read(s) ==
  /\ bs[s].pc = "task_committed"
  /\ bs' = [bs EXCEPT ![s].pc = "index_read",
                      ![s].new_index = IndexAfterBrainstorming(current_task_index)]
  /\ UNCHANGED <<wsVars, timerVars, sockVars, rowVars, voteVars, now, ran, resp, vt>>

(* line 80: the second commit *)
brainstorming_commit(s) ==
  /\ bs[s].pc = "index_read"
  /\ current_task_id' = bs[s].task_id
  /\ current_task_index' = bs[s].new_index
  /\ bs' = [bs EXCEPT ![s] = BsIdle]
  /\ ran' = 0
  /\ resp' = GenReply("get_brainstorming_task_payload", TRUE, 200, "ok")
  /\ UNCHANGED <<status, has_action_plan, timerVars, sockVars, rowVars, voteVars, now, vt>>

(* submit_idea (POST /<id>/submit_idea) *)
submit_idea(u, task_id) ==
  /\ ideas' = ideas \cup {[id |-> NextId(ideas), task_id |-> task_id, participant |-> u]}
  /\ resp' = Reply("submit_idea", TRUE, 200)
  /\ UNCHANGED <<wsVars, timerVars, sockVars, tasks, clusters, voteVars, now, ran, bs, vt>>

TaskIds == {t.id : t \in tasks}

NextTask ==
  \E u \in Users, gen \in GenOutcomes, d \in Durations :
    (gen # "ok" => d = 0) /\ next_task(u, gen, d)
(* the form's duration field: left out (the default), or the longest *)
IntroDurations == {DefaultIntroDuration, MaxDuration}

BeginIntro ==
  \E u \in Users, gen \in GenOutcomes, d \in IntroDurations : begin_intro(u, gen, d)
BrainstormingCreate ==
  \E s \in Sessions, gen \in GenOutcomes, d \in Durations :
    (gen # "ok" => d = 0) /\ brainstorming_create(s, gen, d)
BrainstormingRead   == \E s \in Sessions : brainstorming_read(s)
BrainstormingCommit == \E s \in Sessions : brainstorming_commit(s)
SubmitIdea == \E u \in Users, t \in TaskIds : submit_idea(u, t)


(* -------------------------- submit_vote ------------------------------ *)
(* An idea_votes row is <<cluster_id, participant, k>>: k tells apart rows *)
(* of one (cluster, participant) pair; primary keys are only ever compared *)
(* for equality, and only among rows of one pair.                         *)
VoteRow(c, u, k) == <<c, u, k>>
VotesOf(vs, c, u) == {v \in vs : v[1] = c /\ v[2] = u}
VotesHeldBy(vs, u) == {v \in vs : v[2] = u}

(* the primary key of a new row: not in the table, not held by a handler *)
FreshVote(c, u) ==
  LET used == {v[3] : v \in VotesOf(votes, c, u)}
                \cup {vt[s].existing[3] : s \in {x \in Sessions :
                         vt[x].existing[1] = c /\ vt[x].existing[2] = u}}
  IN  VoteRow(c, u, CHOOSE k \in 1..(Cardinality(used) + 1) : k \notin used)

(* the constraint left out of the table definition *)
UniqueConstraintHolds_Dropped(vs, c, u) == TRUE

(* UniqueConstraint('cluster_id', 'participant_id') when a row is inserted *)
UniqueConstraintHolds(vs, c, u) == VotesOf(vs, c, u) = {}

(* TASK_SEQUENCE[workshop.current_task_index] *)
IndexInSequence(idx) == idx >= 0 /\ idx < Len(TASK_SEQUENCE)
TaskTypeAt(idx) == TASK_SEQUENCE[idx + 1]

ClusterIds == {c.id : c \in clusters}
ClusterTask(cid) == (CHOOSE c \in clusters : c.id = cid).task_id

VoteError(code) == Reply("submit_vote", FALSE, code)

(* a cast that does not look at the dots left *)
VoteDecision_NoDotsCheck(existing_vote, dots_remaining) ==
  IF existing_vote THEN <<"unvoted", dots_remaining + 1>>
  ELSE <<"voted", dots_remaining - 1>>

(* a retraction that gives no dot back *)
VoteDecision_NoRefund(existing_vote, dots_remaining) ==
  IF existing_vote THEN <<"unvoted", dots_remaining>>
  ELSE IF dots_remaining > 0 THEN <<"voted", dots_remaining - 1>>
  ELSE <<"no_dots", dots_remaining>>

(* the dots the handler will write (lines 120-139): <<action, new dots>> *)
VoteDecision(existing_vote, dots_remaining) ==
  IF existing_vote THEN <<"unvoted", dots_remaining + 1>>
  ELSE IF dots_remaining > 0 THEN <<"voted", dots_remaining - 1>>
  ELSE <<"no_dots", dots_remaining>>

(* the validation without its timer check *)
vote_validate_NoTimerCheck(s, u, c) ==
  /\ vt[s].pc = "idle"
  /\ IF status # "inprogress"
       THEN resp' = VoteError(1) /\ UNCHANGED vt
     ELSE IF ~HasCurrentTask
       THEN resp' = VoteError(2) /\ UNCHANGED vt
     ELSE IF ~IndexInSequence(current_task_index)
       \* TASK_SEQUENCE[None] / TASK_SEQUENCE[5]: the handler raises
       THEN resp' = VoteError(500) /\ UNCHANGED vt
     ELSE IF TaskTypeAt(current_task_index) # "clustering_voting"
       THEN resp' = VoteError(2) /\ UNCHANGED vt
     ELSE IF c \notin ClusterIds \/ ClusterTask(c) # current_task_id
       THEN resp' = VoteError(4) /\ UNCHANGED vt
     ELSE /\ vt' = [vt EXCEPT ![s] = [pc |-> "validated", user |-> u, cluster |-> c,
                                       dots |-> dots[u], existing |-> NoVote]]
          /\ UNCHANGED resp
  /\ UNCHANGED <<wsVars, timerVars, sockVars, rowVars, voteVars, now, ran, bs>>

(* _on_submit_vote, lines 78-114: validation; loads the participant row *)
vote_validate(s, u, c) ==
  /\ vt[s].pc = "idle"
  /\ IF status # "inprogress"
       THEN resp' = VoteError(1) /\ UNCHANGED vt
     ELSE IF ~HasCurrentTask
       THEN resp' = VoteError(2) /\ UNCHANGED vt
     ELSE IF ~IndexInSequence(current_task_index)
       \* TASK_SEQUENCE[None] / TASK_SEQUENCE[5]: the handler raises
       THEN resp' = VoteError(500) /\ UNCHANGED vt
     ELSE IF TaskTypeAt(current_task_index) # "clustering_voting"
       THEN resp' = VoteError(2) /\ UNCHANGED vt
     ELSE IF get_remaining_task_time <= 0
       THEN resp' = VoteError(3) /\ UNCHANGED vt
     ELSE IF c \notin ClusterIds \/ ClusterTask(c) # current_task_id
       THEN resp' = VoteError(4) /\ UNCHANGED vt
     ELSE /\ vt' = [vt EXCEPT ![s] = [pc |-> "validated", user |-> u, cluster |-> c,
                                       dots |-> dots[u], existing |-> NoVote]]
          /\ UNCHANGED resp
  /\ UNCHANGED <<wsVars, timerVars, sockVars, rowVars, voteVars, now, ran, bs>>

(* lines 117-139: look up the existing vote, decide *)
vote_lookup(s) ==
  /\ vt[s].pc = "validated"
  /\ LET found == VotesOf(votes, vt[s].cluster, vt[s].user)
         dec == VoteDecision(found # {}, vt[s].dots)
     IN  IF dec[1] = "no_dots"
           THEN /\ resp' = VoteError(5)
                /\ vt' = [vt EXCEPT ![s] = VtIdle]
           ELSE /\ \E row \in (IF found = {} THEN {NoVote} ELSE found) :   \* .first()
                     vt' = [vt EXCEPT ![s].pc = dec[1], ![s].dots = dec[2],
                                      ![s].existing = row]
                /\ UNCHANGED resp
  /\ UNCHANGED <<wsVars, timerVars, sockVars, rowVars, voteVars, now, ran, bs>>

(* lines 142-161: flush and commit, or roll back on an exception.         *)
(* A DELETE that matches no row (the row went in the meantime) is raised   *)
(* as StaleDataError or only warned about, depending on the SQLAlchemy     *)
(* version: both outcomes are taken.                                      *)
vote_commit(s, stale_delete_raises) ==
  LET u == vt[s].user
      c == vt[s].cluster
  IN
  /\ vt[s].pc \in {"voted", "unvoted"}
  /\ vt' = [vt EXCEPT ![s] = VtIdle]
  /\ IF vt[s].pc = "voted"
       THEN IF UniqueConstraintHolds(votes, c, u)
              THEN /\ votes' = votes \cup {FreshVote(c, u)}
                   /\ dots' = [dots EXCEPT ![u] = vt[s].dots]
                   /\ resp' = Reply("submit_vote", TRUE, 200)
              ELSE /\ resp' = VoteError(6)            \* IntegrityError, rollback
                   /\ UNCHANGED voteVars
       ELSE IF vt[s].existing \notin votes /\ stale_delete_raises
              THEN /\ resp' = VoteError(7)            \* StaleDataError, rollback
                   /\ UNCHANGED voteVars
              ELSE /\ votes' = votes \ {vt[s].existing}
                   /\ dots' = [dots EXCEPT ![u] = vt[s].dots]
                   /\ resp' = Reply("submit_vote", TRUE, 201)
  /\ UNCHANGED <<wsVars, timerVars, sockVars, rowVars, now, ran, bs>>

VoteValidateFrom(us) ==
  \E s \in Sessions, u \in us, c \in 1..(NumClusters + 1) : vote_validate(s, u, c)
VoteValidate == VoteValidateFrom(Users)
VoteLookup   == \E s \in Sessions : vote_lookup(s)
VoteCommit   == \E s \in Sessions, r \in BOOLEAN : vote_commit(s, r)

(* ------------------- join_room / leave_room / disconnect -------------- *)
dbVars == <<wsVars, timerVars, rowVars, voteVars, now, ran, resp, bs, vt>>

(* lines 236-240: the first registry item of this (workshop_id, user_id) *)
existing_sid(reg, workshop_id, user_id) ==
  LET m == {i \in DOMAIN reg : /\ reg[i].info.workshop_id = workshop_id
                               /\ reg[i].info.user_id = user_id}
  IN  IF m = {} THEN NoSid
      ELSE reg[CHOOSE i \in m : \A j \in m : i <= j].sid

(* a join that evicts nothing *)
join_dedup_NoEviction(sid, room, workshop_id, user_id) ==
  <<sid_registry, room_presence>>

(* lines 241-245: registry and presence after the eviction of the stale sid *)
join_dedup(sid, room, workshop_id, user_id) ==
  LET old == existing_sid(sid_registry, workshop_id, user_id)
  IN  IF old # NoSid /\ old # sid
        THEN <<RegPop(sid_registry, old), Discard(room_presence, room, user_id)>>
        ELSE <<sid_registry, room_presence>>

(* lines 282-286 *)
current_task_type ==
  LET idx == IF current_task_index # None THEN current_task_index ELSE -1
  IN  IF idx = -1 THEN "warm-up"
      ELSE IF IndexInSequence(idx) THEN TaskTypeAt(idx)
      ELSE "unknown"

(* lines 312-322 *)
event_name(type) ==
  IF type = "warm-up" THEN "introduction_start"
  ELSE IF type = "clustering_voting" THEN "clusters_ready"
  ELSE IF type = "results_feasibility" THEN "feasibility_ready"
  ELSE IF type = "summary" THEN "summary_ready"
  ELSE "task_ready"

(* lines 334-359 *)
content_sync(type) ==
  IF type \in {"warm-up", "brainstorming"} THEN "whiteboard_sync"
  ELSE IF type = "clustering_voting" THEN "all_votes_sync"
  ELSE ""

(* The task_type key of the JSON stored in BrainstormTask.prompt, which    *)
(* **task_details puts over the handler's own task_type (lines 303-310):  *)
(* get_clustering_voting_payload stores "clustering_voting" with the task *)
(* that owns the clusters, and the prompt of the brainstorming service    *)
(* asks the generator for "brainstorming".                                *)
PromptTaskType(t) ==
  IF \E c \in clusters : c.task_id = t.id THEN "clustering_voting"
  ELSE "brainstorming"

(* lines 266-383: the events sent to the joining sid *)
join_sync(sid, room) ==
  IF HasCurrentTask
    THEN [op |-> "join_room", sid |-> sid, list_to |-> room, sync_to |-> sid,
          event |-> event_name(current_task_type),
          task_type |-> PromptTaskType(CurrentTask),
          timer_sync |-> TRUE,
          remaining_seconds |-> get_remaining_task_time,
          is_paused |-> (status = "paused"),
          content |-> content_sync(current_task_type)]
    ELSE [NoEmit("join_room", sid) EXCEPT !.list_to = room, !.sync_to = sid,
                                          !.event = "no_active_task"]

(* _on_join_room *)
on_join_room(sid, room, user_id) ==
  LET d == join_dedup(sid, room, WorkshopId, user_id)
  IN  /\ sid_registry' = RegPut(d[1], sid, Info(room, WorkshopId, user_id))
      /\ room_presence' = AddUser(d[2], room, user_id)
      /\ joined' = [joined EXCEPT ![sid] = Info(room, WorkshopId, user_id)]
      /\ emitted' = join_sync(sid, room)
      /\ UNCHANGED dbVars

(* a discard that keeps the room entry when its set is empty *)
after_discard_NoCleanup(op, sid, room, presence) ==
  /\ room_presence' = presence
  /\ emitted' = IF room \in DOMAIN presence /\ presence[room] # {}
                  THEN [NoEmit(op, sid) EXCEPT !.list_to = room]
                  ELSE NoEmit(op, sid)

(* lines 399-411: presence and broadcast after the discard *)
after_discard(op, sid, room, presence) ==
  IF room \in DOMAIN presence /\ presence[room] # {}
    THEN /\ room_presence' = presence
         /\ emitted' = [NoEmit(op, sid) EXCEPT !.list_to = room]
  ELSE IF room \in DOMAIN presence
    THEN /\ room_presence' = DelRoom(presence, room)
         /\ emitted' = NoEmit(op, sid)
  ELSE /\ room_presence' = presence
       /\ emitted' = NoEmit(op, sid)

(* _on_leave_room, with the data the handler is called with *)
on_leave_room(sid, room, user_id) ==
  /\ sid_registry' = RegPop(sid_registry, sid)
  /\ after_discard("leave_room", sid, room, Discard(room_presence, room, user_id))
  /\ joined' = [joined EXCEPT ![sid] = NoInfo]
  /\ UNCHANGED dbVars

(* _on_disconnect *)
on_disconnect(sid) ==
  /\ sid_registry' = RegPop(sid_registry, sid)
  /\ IF sid \in RegSids(sid_registry)
       THEN LET info == RegInfo(sid_registry, sid)
            IN  after_discard("disconnect", sid, info.room,
                              Discard(room_presence, info.room, info.user_id))
       ELSE /\ emitted' = NoEmit("disconnect", sid)
            /\ UNCHANGED room_presence
  /\ joined' = [joined EXCEPT ![sid] = NoInfo]
  /\ UNCHANGED dbVars

(* A client joins a room as a user, leaves the room it joined, or its      *)
(* connection goes away.                                                  *)
JoinRoomFrom(sids, rooms) ==
  \E sid \in sids, room \in rooms, u \in Users : on_join_room(sid, room, u)
JoinRoom == JoinRoomFrom(Sids, Rooms)
LeaveRoom ==
  \E sid \in Sids :
    /\ joined[sid] # NoInfo
    /\ on_leave_room(sid, joined[sid].room, joined[sid].user_id)
Disconnect == \E sid \in Sids : on_disconnect(sid)

(* ------------------------ the specifications -------------------------- *)
(* The routes and the phase service; rows and the clock stay within the   *)
(* bounds.                                                                *)
Next ==
  \/ Tick
  \/ StartWorkshop
  \/ StopWorkshop
  \/ PauseWorkshop
  \/ ResumeWorkshop
  \/ RestartWorkshop
  \/ EditWorkshop
  \/ (Cardinality(tasks) < MaxTasks /\ NextTask)
  \/ (Cardinality(tasks) < MaxTasks /\ BeginIntro)
  \/ (Cardinality(tasks) < MaxTasks /\ BrainstormingCreate)
  \/ BrainstormingRead
  \/ BrainstormingCommit
  \/ (Cardinality(ideas) < MaxIdeas /\ SubmitIdea)

Spec == Init /\ [][Next]_vars

(* The timer under the lifecycle routes: start, pause, resume, stop, the   *)
(* clock, and the one code path that gives the workshop a current task.   *)
NextTimer ==
  \/ Tick
  \/ StartWorkshop
  \/ PauseWorkshop
  \/ ResumeWorkshop
  \/ StopWorkshop
  \/ (Cardinality(tasks) < MaxTasks /\ BrainstormingCreate)
  \/ BrainstormingRead
  \/ BrainstormingCommit

SpecTimer == Init /\ [][NextTimer]_vars

(* Phase advances alone, followed as far as MaxIndex *)
NextAdvance ==
  \/ StartWorkshop
  \/ (/\ OrZero(current_task_index) < MaxIndex
      /\ Cardinality(tasks) < MaxIndex
      /\ BrainstormingCreate)
  \/ BrainstormingRead
  \/ BrainstormingCommit

SpecAdvance == Init /\ [][NextAdvance]_vars

(* The organizer-only routes called by the organizer and by a member *)
NextLifecycle ==
  \/ StartWorkshop
  \/ StopWorkshop
  \/ PauseWorkshop
  \/ ResumeWorkshop
  \/ RestartWorkshop
  \/ (Cardinality(tasks) < MaxTasks /\ NextTask)
  \/ (Cardinality(tasks) < MaxTasks /\ BeginIntro)

SpecLifecycle == Init /\ [][NextLifecycle]_vars

(* Connections joining, leaving and going away *)
NextPresence ==
  \/ JoinRoom
  \/ LeaveRoom
  \/ Disconnect

SpecPresence == Init /\ [][NextPresence]_vars

(* A connection joining the workshop room while the workshop is started,  *)
(* paused, resumed and given its brainstorming task                       *)
NextJoin ==
  \/ Tick
  \/ StartWorkshop
  \/ PauseWorkshop
  \/ ResumeWorkshop
  \/ (tasks = {} /\ BrainstormingCreate)
  \/ BrainstormingRead
  \/ BrainstormingCommit
  \/ JoinRoomFrom({"sidA"}, {"workshop_room_1"})

SpecJoin == Init /\ [][NextJoin]_vars

(* The voting phase.  InitVote is the state in which the guards of         *)
(* _on_submit_vote pass: the rows get_clustering_voting_payload creates    *)
(* (a voting task, its clusters, every participant's dots reset), and the  *)
(* workshop advanced onto that task with its timer started.               *)
VotingTaskId == 2

InitVoteWith(n) ==
  /\ status = "inprogress"
  /\ current_task_id = VotingTaskId
  /\ current_task_index = 1
  /\ timer_start_time = 0
  /\ timer_paused_at = None
  /\ timer_elapsed_before_pause = 0
  /\ has_action_plan = FALSE
  /\ tasks = {NewTask(1, "generated", MaxDuration, "pending", None, None),
              NewTask(VotingTaskId, "generated", MaxDuration, "running", 0, 0)}
  /\ ideas = {[id |-> 1, task_id |-> 1, participant |-> "member"]}
  /\ clusters = {[id |-> c, task_id |-> VotingTaskId] : c \in 1..n}
  /\ votes = {}
  /\ dots = [u \in Users |-> default_dots]
  /\ now = 0
  /\ ran = 0
  /\ resp = Reply("clusters_ready", TRUE, 200)
  /\ bs = [s \in Sessions |-> BsIdle]
  /\ vt = [s \in Sessions |-> VtIdle]
  /\ SockInit

DotsCapped == \A u \in Users : dots[u] < MaxDots
NoVoteInFlight == \A s \in Sessions : vt[s].pc = "idle"

(* submit_vote events of one participant, sent from two connections and   *)
(* handled concurrently                                                   *)
RacingVoters == {"member"}

NextVote ==
  \/ Tick
  \/ (DotsCapped /\ VoteValidateFrom(RacingVoters))
  \/ VoteLookup
  \/ VoteCommit

InitVote == InitVoteWith(RacedClusters)

SpecVote == InitVote /\ [][NextVote]_vars

(* submit_vote events of every participant, handled one after the other   *)
(* while the voting timer runs                                            *)
NextVoteSeq ==
  \/ (NoVoteInFlight /\ VoteValidate)
  \/ VoteLookup
  \/ VoteCommit

InitVoteSeq == InitVoteWith(NumClusters)

SpecVoteSeq == InitVoteSeq /\ [][NextVoteSeq]_vars

(* The voting phase with the organizer's controls: votes of one          *)
(* participant handled one after the other while the clock runs, the      *)
(* organizer pauses, resumes and stops, and the phase service moves the   *)
(* workshop on once.                                                      *)
NoTaskAfterVoting == \A t \in tasks : t.id <= VotingTaskId

NextVoting ==
  \/ Tick
  \/ PauseWorkshop
  \/ ResumeWorkshop
  \/ StopWorkshop
  \/ (NoVoteInFlight /\ VoteValidateFrom(RacingVoters))
  \/ VoteLookup
  \/ VoteCommit
  \/ (NoTaskAfterVoting /\ BrainstormingCreate)
  \/ BrainstormingRead
  \/ BrainstormingCommit

SpecVoting == InitVote /\ [][NextVoting]_vars

(* ====================================================================== *)
(*                              The claims                                *)
(* ====================================================================== *)

(* C1: pause/resume round trip preserves remaining time.  Right after a   *)
(* successful resume of a workshop whose current task has duration D and  *)
(* ran for e seconds before the pause (0 < e < D),                        *)
(* get_remaining_task_time() is D - e.                                    *)
C1_PauseResumeRoundTrip ==
  (/\ resp.op = "resume_workshop" /\ resp.ok
   /\ HasCurrentTask
   /\ 0 < ran /\ ran < CurrentTask.duration)
  => get_remaining_task_time = CurrentTask.duration - ran

(* C2: get_remaining_task_time() is 0 without a current task or duration, *)
(* max(0, duration - elapsed_before_pause) whenever status = paused,      *)
(* max(0, duration - (elapsed_before_pause + now - timer_start_time))     *)
(* when inprogress with timer_start_time set, and 0 otherwise.            *)
C2_RemainingTimeCases ==
  get_remaining_task_time =
    IF ~HasCurrentTask THEN 0
    ELSE IF CurrentTask.duration = 0 THEN 0
    ELSE IF status = "paused"
      THEN Max0(CurrentTask.duration - timer_elapsed_before_pause)
    ELSE IF status = "inprogress" /\ timer_start_time # None
      THEN Max0(CurrentTask.duration
                  - (timer_elapsed_before_pause + (now - timer_start_time)))
    ELSE 0

(* C3: vote uniqueness.  Under any interleaving of submit_vote events,   *)
(* double clicks of one participant on one cluster included, at most one  *)
(* IdeaVote row exists per (cluster, participant) pair; a vote that       *)
(* succeeds toggles the pair: a cast ends with exactly one row where      *)
(* there was none, a retraction of the row that is still there ends with  *)
(* none, a failure changes nothing.                                       *)
AtMostOneVotePerPair ==
  \A c \in ClusterIds, u \in Users : Cardinality(VotesOf(votes, c, u)) <= 1

VoteToggles ==
  \A s \in Sessions :
    (vt[s].pc \in {"voted", "unvoted"} /\ vt'[s].pc = "idle") =>
      LET before == VotesOf(votes, vt[s].cluster, vt[s].user)
          after  == VotesOf(votes', vt[s].cluster, vt[s].user)
      IN  /\ (resp'.ok /\ vt[s].pc = "voted")
                => before = {} /\ Cardinality(after) = 1
          /\ (resp'.ok /\ vt[s].pc = "unvoted" /\ vt[s].existing \in votes)
                => after = {}
          /\ ~resp'.ok => after = before

C3_VoteUniqueness == [](AtMostOneVotePerPair) /\ [][VoteToggles]_vars

(* two casts of one pair raced; the second insert was refused *)
C3_Witness ==
  /\ resp = VoteError(6)
  /\ \E c \in ClusterIds : Cardinality(VotesOf(votes, c, "member")) = 1

(* C4: dots conservation.  After any sequence of successful casts and     *)
(* retractions, handled one after the other, every participant's          *)
(* dots_remaining is the budget (5) minus the votes the participant       *)
(* holds, never negative and never above the budget.                      *)
C4_DotsConservation ==
  \A u \in Users :
    /\ dots[u] = default_dots - Cardinality(VotesHeldBy(votes, u))
    /\ dots[u] >= 0
    /\ dots[u] <= default_dots

(* a retraction by a participant who had spent the whole budget *)
C4_Witness ==
  /\ resp = Reply("submit_vote", TRUE, 201)
  /\ \E u \in Users : /\ Cardinality(VotesHeldBy(votes, u)) = default_dots - 1
                      /\ dots[u] = 1

(* C5: idea rejection after phase advance.  A submit_idea whose task_id   *)
(* is not workshop.current_task_id creates no Idea row: every row a step  *)
(* adds belongs to the task that is current.                              *)
C5_StaleIdeaRejected ==
  [][\A i \in ideas' \ ideas : i.task_id = current_task_id]_vars

(* C6: phase sequence boundedness.  current_task_index never reaches or   *)
(* exceeds len(TASK_SEQUENCE); the advance past the last phase fails.     *)
C6_IndexBelowSequenceLength == current_task_index < Len(TASK_SEQUENCE)

(* C7: atomic advance on generation failure.  A phase advance whose       *)
(* generator result is unparsable or wrongly shaped reports failure,      *)
(* adds no Task row and leaves current_task_id / current_task_index.      *)
C7_FailedGenerationChangesNothing ==
  [][(resp' # resp /\ resp'.gen \notin {"ok", "none"})
       => /\ ~resp'.ok
          /\ tasks' = tasks
          /\ current_task_id' = current_task_id
          /\ current_task_index' = current_task_index]_vars

(* C8: serialized phase transitions.  The workshop never holds two Tasks  *)
(* created from the same current_task_index (for the same next index).    *)
C8_OneTaskPerPhaseIndex ==
  \A t1, t2 \in tasks : t1.from_index = t2.from_index => t1.id = t2.id

(* C9: a phase advance is one atomic unit.  No committed state holds a    *)
(* Task row newer than the task the workshop references.                  *)
C9_TaskAndWorkshopCommitTogether ==
  \A t \in tasks : current_task_id # None /\ t.id <= current_task_id

(* C10: after every successful phase advance the newest Task row is       *)
(* running with started_at = now, the workshop references it, the index   *)
(* went up by one, the timer is reset, and the remaining time is the      *)
(* task's duration.                                                       *)
AdvanceSucceeds ==
  /\ resp' # resp
  /\ resp'.ok
  /\ resp'.op \in {"next_task", "get_brainstorming_task_payload"}

C10_AdvancePostcondition ==
  [][AdvanceSucceeds
       => /\ HasCurrentTask'
          /\ \A t \in tasks' : t.id <= current_task_id'
          /\ CurrentTask'.status = "running"
          /\ CurrentTask'.started_at = now'
          /\ current_task_index' = IF current_task_index = None THEN 0
                                   ELSE current_task_index + 1
          /\ timer_start_time' = now'
          /\ timer_elapsed_before_pause' = 0
          /\ timer_paused_at' = None
          /\ get_remaining_task_time' = CurrentTask'.duration]_vars

(* C11: InvalidTransition mutates nothing.  start_workshop when status is *)
(* not scheduled, pause_workshop when not inprogress, resume_workshop     *)
(* when not paused and stop_workshop when neither inprogress nor paused   *)
(* are answered with a failure, and status, current_task_id,              *)
(* current_task_index, the timer fields and the Task rows stay as they    *)
(* were.                                                                  *)
InvalidTransition(op) ==
  \/ op = "start_workshop"  /\ status # "scheduled"
  \/ op = "pause_workshop"  /\ status # "inprogress"
  \/ op = "resume_workshop" /\ status # "paused"
  \/ op = "stop_workshop"   /\ status \notin {"inprogress", "paused"}

StatusEdges ==
  {<<"scheduled", "inprogress">>, <<"inprogress", "paused">>,
   <<"paused", "inprogress">>, <<"inprogress", "completed">>,
   <<"paused", "completed">>, <<"scheduled", "cancelled">>,
   <<"cancelled", "inprogress">>}

C12_StatusFollowsEdges ==
  [][status' # status => <<status, status'>> \in StatusEdges]_vars

(* C13: a successful pause_workshop on a workshop whose timer is running  *)
(* adds now - timer_start_time to timer_elapsed_before_pause, sets        *)
(* timer_paused_at = now, clears timer_start_time and sets status paused. *)
C13_PauseFreezesTimer ==
  [][(/\ resp' # resp
      /\ resp' = Reply("pause_workshop", TRUE, 200)
      /\ timer_start_time # None)
       => /\ timer_elapsed_before_pause'
               = timer_elapsed_before_pause + (now - timer_start_time)
          /\ timer_paused_at' = now
          /\ timer_start_time' = None
          /\ status' = "paused"]_vars

(* C14: whenever status is paused, timer_start_time is cleared and        *)
(* timer_paused_at is set.                                                *)
C14_PausedTimerFields ==
  status = "paused" => (timer_start_time = None /\ timer_paused_at # None)

(* C15: a successful resume_workshop on a paused workshop that has an     *)
(* active task sets timer_start_time = now, clears timer_paused_at and    *)
(* sets status = inprogress.                                              *)
C15_ResumeRestartsTimer ==
  [][(resp' # resp /\ resp' = Reply("resume_workshop", TRUE, 200) /\ HasCurrentTask)
       => /\ status' = "inprogress"
          /\ timer_start_time' = now'
          /\ timer_paused_at' = None]_vars

(* C16: after a successful start_workshop status is inprogress,           *)
(* current_task_id is cleared, the timer fields are cleared and           *)
(* current_task_index is back at its value before phase 0.                *)
C16_StartResetsWorkshop ==
  [][(resp' # resp /\ resp' = Reply("start_workshop", TRUE, 200))
       => /\ status' = "inprogress"
          /\ current_task_id' = None
          /\ current_task_index' = None
          /\ timer_start_time' = None
          /\ timer_paused_at' = None
          /\ timer_elapsed_before_pause' = 0]_vars

(* C17: stop_workshop by the organizer succeeds from inprogress and from  *)
(* paused; afterwards status is completed, the task that was current, if  *)
(* running, is completed with ended_at = now, and current_task_id and     *)
(* the timer fields are cleared.                                          *)
C17_StopCompletesWorkshop ==
  [][(/\ resp' # resp
      /\ resp'.op = "stop_workshop"
      /\ resp'.code # 403
      /\ status \in {"inprogress", "paused"})
       => /\ resp'.ok
          /\ status' = "completed"
          /\ current_task_id' = None
          /\ timer_start_time' = None
          /\ timer_paused_at' = None
          /\ timer_elapsed_before_pause' = 0
          /\ (HasCurrentTask /\ CurrentTask.status = "running")
               => \E t \in tasks' : /\ t.id = current_task_id
                                    /\ t.status = "completed"
                                    /\ t.ended_at = now']_vars

(* C18: a phase advance requires status = inprogress.  An advance asked   *)
(* for while the workshop is scheduled, paused, completed or cancelled is *)
(* rejected, adds no Task row and changes no workshop field.              *)
AdvanceOps == {"next_task", "begin_intro", "get_brainstorming_task_payload"}

C18_AdvanceNeedsInProgress ==
  [][status # "inprogress"
       => /\ tasks' = tasks
          /\ (resp' # resp /\ resp'.op \in AdvanceOps)
               => (~resp'.ok /\ UNCHANGED wsVars)]_vars

(* C19: a submit_idea for the current task is rejected (TimeExpired) when *)
(* status is inprogress and get_remaining_task_time() is 0, and is        *)
(* accepted while status is paused.                                       *)
C19_IdeaAfterTimeExpired ==
  [][/\ \A i \in ideas' \ ideas :
          (status = "inprogress" /\ i.task_id = current_task_id)
            => get_remaining_task_time > 0
     /\ (resp' # resp /\ resp'.op = "submit_idea" /\ status = "paused"
           /\ HasCurrentTask)
          => resp'.ok]_vars

(* C20: submit_vote creates or deletes an IdeaVote row, or changes        *)
(* dots_remaining, only if, when the handler checks, status is            *)
(* inprogress, the current phase is clustering_voting and                 *)
(* get_remaining_task_time() > 0; in every other case the sender gets an  *)
(* error reply and no Vote row and no dots_remaining changes.             *)
VotingPhaseIndexes ==
  {i \in 0..(Len(TASK_SEQUENCE) - 1) : TASK_SEQUENCE[i + 1] = "clustering_voting"}

VotingOpen ==
  /\ status = "inprogress"
  /\ HasCurrentTask
  /\ current_task_index \in VotingPhaseIndexes
  /\ get_remaining_task_time > 0

VoteGate ==
  /\ \A s \in Sessions :
       (vt[s].pc = "idle" /\ vt'[s].pc # "idle") => VotingOpen
  /\ (votes' # votes \/ dots' # dots)
       => \E s \in Sessions : vt[s].pc \in {"voted", "unvoted"} /\ vt'[s].pc = "idle"
  /\ (resp' # resp /\ resp'.op = "submit_vote" /\ vt' = vt /\ ~VotingOpen)
       => (~resp'.ok /\ UNCHANGED voteVars)

C21_NoDotsMutatesNothing ==
  [][\A s \in Sessions :
       (/\ vt[s].pc = "validated"
        /\ vt'[s].pc # "validated"
        /\ dots[vt[s].user] = 0
        /\ VotesOf(votes, vt[s].cluster, vt[s].user) = {})
         => /\ resp' = VoteError(5)
            /\ vt'[s].pc = "idle"
            /\ UNCHANGED voteVars]_vars

(* a sixth cluster refused after five votes spent the budget *)
C21_Witness ==
  /\ resp = VoteError(5)
  /\ NoVoteInFlight
  /\ \E u \in Users : dots[u] = 0 /\ Cardinality(VotesHeldBy(votes, u)) = default_dots

(* C22: in every reachable state, also when several submit_vote events of *)
(* one participant are handled concurrently, 0 <= dots_remaining <= 5.    *)
C22_DotsWithinBudget ==
  \A u \in Users : dots[u] >= 0 /\ dots[u] <= default_dots

(* C26: timer monotonicity.  Over a step that leaves the workshop         *)
(* inprogress with the same current task (no pause, no phase change),     *)
(* get_remaining_task_time() does not grow; a handler that calls it (the  *)
(* submit_vote check) changes no workshop field, timer field or Task row. *)
C26_TimerMonotone ==
  [][/\ (/\ status = "inprogress" /\ status' = "inprogress"
         /\ HasCurrentTask /\ current_task_id' = current_task_id)
          => get_remaining_task_time' <= get_remaining_task_time
     /\ vt' # vt => UNCHANGED <<wsVars, timerVars, tasks>>]_vars

(* the clock has advanced under a running task and time is still left *)
C26_Witness ==
  /\ status = "inprogress" /\ HasCurrentTask
  /\ now > 0
  /\ get_remaining_task_time > 0
  /\ get_remaining_task_time < CurrentTask.duration
  /\ resp.op = "submit_vote"

(* C27: organizer-only lifecycle.  start, pause, resume, stop, restart,   *)
(* begin_intro and next_task requested by a user who is not the organizer *)
(* are answered 403 'Permission denied' and leave the workshop's status   *)
(* and the Task rows as they were.                                        *)
OrganizerOnly(u) ==
  \/ start_workshop(u) \/ pause_workshop(u) \/ resume_workshop(u)
  \/ stop_workshop(u) \/ restart_workshop(u)
  \/ \E gen \in GenOutcomes, d \in IntroDurations : begin_intro(u, gen, d)
  \/ \E gen \in GenOutcomes, d \in Durations : next_task(u, gen, d)

C27_OrganizerOnlyLifecycle ==
  [][\A u \in Users \ {Organizer} :
       OrganizerOnly(u) => /\ ~resp'.ok /\ resp'.code = 403
                           /\ UNCHANGED <<status, tasks>>]_vars

(* a member's pause of a running workshop that has Task rows is refused *)
C27_Witness ==
  /\ resp = Reply("pause_workshop", FALSE, 403)
  /\ status = "inprogress"
  /\ tasks # {}

(* C28: whenever the workshop has a current task, TASK_SEQUENCE at        *)
(* current_task_index is the phase type of that task.  The only code that *)
(* makes a task current is get_brainstorming_task_payload, whose task is  *)
(* the brainstorming task: after it, the index names "brainstorming" (the *)
(* first advance from the unset index leaves 0).                          *)
C28_IndexNamesCurrentPhase ==
  [][(/\ resp' # resp
      /\ resp'.op = "get_brainstorming_task_payload"
      /\ current_task_id' # current_task_id)
       => /\ IndexInSequence(current_task_index')
          /\ TaskTypeAt(current_task_index') = "brainstorming"]_vars

(* C24: join deduplication.  After any sequence of join_room, leave_room  *)
(* and disconnect events the registry holds at most one connection for    *)
(* each (workshop_id, user_id) pair: a join by a user registered under    *)
(* another sid evicts that entry before the new one is registered.        *)
C24_OneConnectionPerUser ==
  \A i, j \in DOMAIN sid_registry :
    (/\ sid_registry[i].info.workshop_id = sid_registry[j].info.workshop_id
     /\ sid_registry[i].info.user_id = sid_registry[j].info.user_id) => i = j

(* the last join came from a user whose other connection never left: the  *)
(* other connection is gone from the registry                             *)
C24_Witness ==
  \E a, b \in Sids :
    /\ a # b
    /\ emitted.op = "join_room" /\ emitted.sid = b
    /\ joined[a] # NoInfo
    /\ joined[a].user_id = joined[b].user_id
    /\ a \notin RegSids(sid_registry)
    /\ b \in RegSids(sid_registry)

(* C25: room garbage collection.  No reachable state has a room entry     *)
(* with an empty presence set, and a leave_room or disconnect of a        *)
(* registered connection that leaves its room non-empty broadcasts the    *)
(* participant list to that room.                                         *)
NoEmptyRoom == \A r \in DOMAIN room_presence : room_presence[r] # {}

LeftRoomNotified ==
  \A sid \in Sids :
    /\ (joined[sid] # NoInfo /\ on_leave_room(sid, joined[sid].room, joined[sid].user_id))
         => (joined[sid].room \in DOMAIN room_presence'
               => emitted'.list_to = joined[sid].room)
    /\ (sid \in RegSids(sid_registry) /\ on_disconnect(sid))
         => (RegInfo(sid_registry, sid).room \in DOMAIN room_presence'
               => emitted'.list_to = RegInfo(sid_registry, sid).room)

C25_RoomGarbageCollected == []NoEmptyRoom /\ [][LeftRoomNotified]_vars

(* the last connection of a room has left and the room entry is gone,     *)
(* while the other room is still populated                                *)
C25_Witness ==
  /\ emitted.op \in {"leave_room", "disconnect"}
  /\ emitted.list_to = NoRoom
  /\ \E r \in Rooms : r \notin DOMAIN room_presence /\ joined[emitted.sid] = NoInfo
  /\ DOMAIN room_presence # {}
  /\ Len(sid_registry) = 1

(* C29: no ghost presence.  Each user in a room's presence set has a      *)
(* connection registered for that room.                                   *)
C29_NoGhostPresence ==
  \A r \in DOMAIN room_presence : \A u \in room_presence[r] :
    \E i \in DOMAIN sid_registry : /\ sid_registry[i].info.room = r
                                   /\ sid_registry[i].info.user_id = u

(* C30: a live connection stays present.  Each registered connection      *)
(* (room, user_id) has user_id in that room's presence set.               *)
C30_LiveConnectionPresent ==
  \A i \in DOMAIN sid_registry :
    /\ sid_registry[i].info.room \in DOMAIN room_presence
    /\ sid_registry[i].info.user_id \in room_presence[sid_registry[i].info.room]

(* C23: late-join sync.  A join_room while the workshop has an active     *)
(* task of phase type P with duration D, e seconds of it elapsed, sends   *)
(* the sync events to the joining connection only, with task_type = P,    *)
(* remaining_seconds = D - e and is_paused = (status = paused).  Here the *)
(* one task is the brainstorming task and e is ran.                       *)
C23_LateJoinSync ==
  [][\A sid \in Sids, room \in Rooms, u \in Users :
       (/\ HasCurrentTask
        /\ status \in {"inprogress", "paused"}
        /\ on_join_room(sid, room, u))
         => /\ emitted'.sync_to = sid
            /\ emitted'.task_type = "brainstorming"
            /\ emitted'.timer_sync
            /\ emitted'.remaining_seconds = Max0(CurrentTask.duration - ran)
            /\ emitted'.is_paused = (status = "paused")]_vars
====
